---- MODULE Spec2Model ----
(***************************************************************************)
(* Model of the service invoker of taurus-pro-consul (pkg/consul):         *)
(* ServiceInvoker.Call and ServiceInvoker.CallJSON with the registry       *)
(* lookup Client.GetHealthyServices, the tag filter containsAll, the       *)
(* load-balancing switch and the retry loop around httpClient.Do.          *)
(* Further specifications model Client.WatchConfig, NewClient, the        *)
(* key-value operations, GetService, NewServiceInvoker's options, the      *)
(* headers and the body of a request, RegisterService and AddHealthCheck.  *)
(***************************************************************************)
EXTENDS Integers, Sequences, FiniteSets, TLC

(* ------------------------------ bounds --------------------------------- *)

\* number of service instances that can be registered
NumInst == 3
\* largest retry count passed to WithRetry
MaxRetry == 3
\* number of invocations made on the invoker
MaxCalls == 3
\* number of goroutines that call the invoker
NumGoroutines == 2
\* number of goroutines that use the key-value store
NumKVClients == 2
\* number of key-value operations they make in all
MaxKVOps == 3
\* number of writes the key-value store takes
MaxWrites == 3
\* number of options passed to NewServiceInvoker
MaxOpts == 2
\* number of bytes of a marshalled request body
MaxBody == 2
\* number of RegisterService and AddHealthCheck calls made on the client
MaxAgentOps == 2
\* largest value passed to WithMaxRetries
MaxClientRetries == 3
\* number of WatchConfig calls made on the client
NumWatchers == 1
\* largest change index the watched key reaches
MaxIndex == 3

(* --------------------------- program constants ------------------------- *)

Random == 0
RoundRobin == 1
LeastConn == 2
\* a LoadBalanceStrategy value that is none of the three named ones
OtherStrategy == 3

Strategies == {Random, RoundRobin, LeastConn, OtherStrategy}

Instances == 1..NumInst
Goroutines == 1..NumGoroutines

\* the nil *api.ServiceEntry
NilService == 0

\* tags of a registered instance (api.AgentService.Tags), as a slice
InstTags(s) ==
    IF s = 1 THEN <<"api">>
    ELSE IF s <= 3 THEN <<"api", "v1">>
    ELSE <<>>

\* tag filters an invoker can be built with (WithTags)
TagFilters == { <<>>, <<"v1", "api">>, <<"api", "v2">> }

\* service names an invoker can be built with
ServiceNames == {"", "svc"}

\* retry counts an invoker can be built with (WithRetry takes any int)
RetryCounts == (0 - 2)..MaxRetry

\* errors of one httpClient.Do
TransportErrors == {"refused", "timeout"}
\* status codes of a response httpClient.Do returns
StatusCodes == {200, 299, 300, 500}

\* timeout and retry interval of NewServiceInvoker, in seconds
DefaultTiming == <<30, 1>>

\* timeout and retry interval an invoker can be built with: the defaults,
\* and values set by WithInvokeTimeout and WithRetry
TimingOptions == { DefaultTiming, <<10, 2>> }

NoErr == "nil"

\* no list: the lookup has not returned one, or the list is no longer used
NoSnapshot == <<0>>

Range(f) == { f[x] : x \in DOMAIN f }

\* the first n instances, in the order that starts with instance r + 1
Rotated(n, r) == [k \in 1..n |-> ((k - 1 + r) % n) + 1]

\* lists of healthy instances that Health().Service returns: the first n
\* instances, in the order that starts with the first or with the second
RegistryLists == { Rotated(n, r) : n \in 0..NumInst, r \in 0..1 }

(* ------------------------------- state --------------------------------- *)

VARIABLES
    registry,      \* healthy instances of the service, in the registry's order
    serviceName,   \* ServiceInvoker.serviceName
    tags,          \* ServiceInvoker.tags
    strategy,      \* ServiceInvoker.strategy
    retryCount,    \* ServiceInvoker.retryCount
    timeout,       \* ServiceInvoker.timeout, in seconds
    retryInterval, \* ServiceInvoker.retryInterval, in seconds
    currentIndex,  \* ServiceInvoker.currentIndex
    call,          \* per goroutine: the locals and position of its invocation
    obs,           \* per goroutine: what the invocation has done so far
    run,           \* selections of the latest consecutive calls with one eligible list
    calls,         \* invocations started so far
    picked         \* round-robin selections made so far

invokerVars == <<registry, serviceName, tags, strategy, retryCount, timeout,
                 retryInterval, currentIndex, call, obs, run, calls, picked>>

VARIABLES
    kv,            \* the watched key in the registry's key-value store
    cancelled,     \* whether the client's context is done
    watch          \* per WatchConfig call: its result, its goroutine, its config

watchVars == <<kv, cancelled, watch>>

VARIABLES
    newClient,     \* NewClient: its configuration, its loop and what it returns
    store,         \* the registry's key-value store, one key
    kvops,         \* per goroutine: its Put, Get, Delete or CAS on that key
    getService,    \* GetService: its arguments and what it returns
    built,         \* NewServiceInvoker: its options and the invoker it returns
    request        \* CallJSON: the caller's headers and the headers sent

clientVars == <<newClient>>
kvVars == <<store, kvops>>
pureVars == <<getService, built, request>>

VARIABLES
    agentServices, \* the agent's service registrations, by service ID
    agentCall      \* the last RegisterService or AddHealthCheck call

agentVars == <<agentServices, agentCall>>
libVars == <<clientVars, kvVars, pureVars, agentVars>>

vars == <<invokerVars, watchVars, libVars>>

config == <<serviceName, tags, strategy, retryCount, timeout, retryInterval>>

NoResult == [kind |-> "none", status |-> 0, attempts |-> 0, err |-> NoErr]

\* the locals of Call and CallJSON; services is dead once the request is
\* built and is dropped there
IdleCall ==
    [pc |-> "Idle", entry |-> "Call", services |-> <<>>,
     selectedService |-> NilService, tmp |-> 0, url |-> 0,
     attempt |-> 0, lastErr |-> NoErr, result |-> NoResult]

\* what an invocation has done: calls of GetHealthyServices, registry
\* queries, whether a query failed, the list the lookup returned (until the
\* request is built), selections, the cursor read by the selection, requests
\* sent and their targets, failed requests, sleeps and their lengths, the error of the latest
\* request, the status of the response, the response target and body
IdleObs ==
    [lookups |-> 0, queries |-> 0, lookupErr |-> FALSE, snapshot |-> NoSnapshot,
     selections |-> 0, cursor |-> 0, sent |-> 0, fails |-> 0, sleeps |-> 0,
     waits |-> {}, targets |-> {}, doErr |-> NoErr, status |-> 0,
     hasTarget |-> FALSE, bodyValid |-> TRUE]

EmptyRun == [elig |-> <<>>, cur0 |-> 0, picks |-> <<>>]

(* --------------------------- pure functions ---------------------------- *)

\* containsAll that is satisfied by one common item
containsAny(array, items) ==
    Len(items) = 0 \/ \E i \in 1..Len(items) : \E j \in 1..Len(array) : array[j] = items[i]

\* containsAll(array, items): every item occurs in array
containsAll(array, items) ==
    \A i \in 1..Len(items) : \E j \in 1..Len(array) : array[j] = items[i]

\* a tag filter that falls back to the whole list when nothing matches
FilterOrAll(services, t) ==
    LET filtered == SelectSeq(services, LAMBDA s : containsAll(InstTags(s), t))
    IN  IF Len(t) > 0 /\ Len(filtered) > 0 THEN filtered ELSE services

\* the tag filter of Call: applied only when the invoker has tags
FilterOf(services, t) ==
    IF Len(t) > 0
    THEN SelectSeq(services, LAMBDA s : containsAll(InstTags(s), t))
    ELSE services

\* a status check that takes 300 for a success
Is2xxLoose(code) == ~(code < 200 \/ code > 300)

Is2xx(code) == ~(code < 200 \/ code >= 300)

Failure(kind) == [kind |-> kind, status |-> 0, attempts |-> 0, err |-> NoErr]

\* a CallJSON that decodes the body whether or not it has a target
DecodesAlways(hasTarget) == TRUE

\* whether CallJSON decodes the response body: responseBody != nil
Decodes(hasTarget) == hasTarget

\* what the entry point hands to its caller, given what Call returned:
\* Call returns it as it is, CallJSON classifies a response
Outcome(entry, ret, hasTarget, bodyValid) ==
    IF entry = "Call" \/ ret.kind # "Response" THEN ret
    ELSE IF ~Is2xx(ret.status)
         THEN [kind |-> "ApplicationError", status |-> ret.status,
               attempts |-> 0, err |-> NoErr]
    ELSE IF Decodes(hasTarget) /\ ~bodyValid THEN Failure("DecodeError")
    ELSE [kind |-> "Success", status |-> ret.status, attempts |-> 0, err |-> NoErr]

\* the run of selections after a call selected index idx of eligible list e
RunAfter(r, e, cur, idx) ==
    IF r.elig = e /\ r.picks # <<>>
    THEN [r EXCEPT !.picks = Append(@, idx)]
    ELSE [elig |-> e, cur0 |-> cur, picks |-> <<idx>>]

(* ------------------------------- Init ---------------------------------- *)

Watchers == 1..NumWatchers

\* the watched key: whether it exists, whether its value parses into the
\* caller's config, and the index of its last change
KVStates ==
    {[present |-> FALSE, valid |-> TRUE, index |-> 1],
     [present |-> TRUE, valid |-> TRUE, index |-> 1],
     [present |-> TRUE, valid |-> FALSE, index |-> 1]}

\* a WatchConfig call that has not been made: res is what WatchConfig
\* returned, pc the position of its goroutine, waitIndex the goroutine's
\* local, cfg the index of the value last parsed into the config object,
\* failed the kind of failure of the last iteration while no sleep and no
\* good iteration has followed it
NoWatch ==
    [res |-> "none", pc |-> "None", waitIndex |-> 0, cfg |-> 0, failed |-> "none"]

\* a client on which WatchConfig has not been called
NoWatchers ==
    /\ kv \in KVStates
    /\ cancelled = FALSE
    /\ watch = [w \in Watchers |-> NoWatch]

\* an invoker built by NewServiceInvoker with a name, tags, strategy, retry
\* count and timing drawn from the given sets, before its first call
InitInvoker(names, filters, strats, retries, timings) ==
    /\ registry \in RegistryLists
    /\ serviceName \in names
    /\ tags \in filters
    /\ strategy \in strats
    /\ retryCount \in retries
    /\ \E t \in timings : timeout = t[1] /\ retryInterval = t[2]
    /\ currentIndex = 0
    /\ call = [p \in Goroutines |-> IdleCall]
    /\ obs = [p \in Goroutines |-> IdleObs]
    /\ run = EmptyRun
    /\ calls = 0
    /\ picked = 0

\* NewClient before it is called; maxRetries and retryTime are the fields of
\* its Config, i and lastErr its locals, tests, fails, sleeps and waits what
\* it has done, result and reported what it returns and the attempt count
\* in its error
NewClientIdle ==
    [pc |-> "Idle", maxRetries |-> 3, retryTime |-> 3, i |-> 0, lastErr |-> NoErr,
     tests |-> 0, fails |-> 0, sleeps |-> 0, waits |-> {},
     result |-> "none", reported |-> 0]

\* the other operations of the client, not called
ClientIdle == newClient = NewClientIdle
KVClients == 1..NumKVClients

\* a nil []byte
NilValue == "nil"

\* the store without the key: value and modify are those of the key, index
\* counts the writes the store has taken, gen the deletes of the key
EmptyStore ==
    [present |-> FALSE, value |-> NilValue, modify |-> 0, index |-> 0, gen |-> 0]

\* what an operation has not yet seen of the store
NoSeen == [present |-> FALSE, modify |-> 0, index |-> 0, gen |-> 0]

\* no earlier write of the goroutine
NoPrev == [op |-> "none", value |-> NilValue, stamp |-> 0]

\* a goroutine between two operations: op, key, value and version are the
\* arguments, sent and reqErr whether a request went out and failed, err,
\* val and swapped the return values, seen the store as the request found
\* it, stamp the store's index after the operation's own write, prev the
\* goroutine's last write that succeeded, n the operations it has begun,
\* nilPair whether PutWithOptions got a nil pair
IdleOp ==
    [pc |-> "Idle", op |-> "Get", key |-> "k", value |-> NilValue, version |-> 0,
     nilPair |-> FALSE, sent |-> FALSE, reqErr |-> FALSE, err |-> "nil", val |-> NilValue,
     swapped |-> FALSE, seen |-> NoSeen, stamp |-> 0, prev |-> NoPrev, n |-> 0]

KVIdle ==
    /\ store = EmptyStore
    /\ kvops = [p \in KVClients |-> IdleOp]

\* GetService before it is called
GetServiceIdle ==
    [pc |-> "Idle", name |-> "svc", tag |-> "", services |-> <<>>,
     out |-> <<>>, err |-> "nil"]

\* the ServiceInvoker literal of NewServiceInvoker; its http.Client is the
\* zero value, whose Timeout is 0
NewInvoker ==
    [tags |-> <<>>, strategy |-> RoundRobin, timeout |-> 30, retryCount |-> 3,
     retryInterval |-> 1, httpTimeout |-> 0]

\* NewServiceInvoker before it is called
BuiltIdle == [pc |-> "Idle", opts |-> <<>>, inv |-> NewInvoker]

\* header keys as callers spell them
HeaderKeys == {"Content-Type", "content-type", "Accept", "X-Trace"}
\* header values of callers
HeaderValues == {"text/plain", "application/json"}
\* no entry under a key
NoHeader == "none"
\* a map without entries, also what ranging over a nil map sees
EmptyHeaders == [k \in HeaderKeys |-> NoHeader]

\* CallJSON before it is called: body is the marshalled request body, pos
\* how much of it the request's reader has given out, attempt the loop's
\* counter, offered what the reader still held at the start of each
\* httpClient.Do
RequestIdle ==
    [pc |-> "Idle", isNil |-> TRUE, before |-> EmptyHeaders,
     caller |-> EmptyHeaders, headers |-> EmptyHeaders, sent |-> EmptyHeaders,
     body |-> <<>>, pos |-> 0, attempt |-> 0, offered |-> <<>>]

GetServiceUnused == getService = GetServiceIdle
BuiltUnused == built = BuiltIdle
RequestUnused == request = RequestIdle

PureIdle == GetServiceUnused /\ BuiltUnused /\ RequestUnused

\* service names, ports and IDs of a ServiceConfig
AgentNames == {"", "web"}
AgentPorts == {0 - 1, 0, 80}
ConfigIDs == {"", "w1"}

\* a default ID made of the name alone
DefaultIDNameOnly(name, port) == name

\* fmt.Sprintf("%s-%d", cfg.Name, cfg.Port)
DefaultID(name, port) == name \o "-" \o ToString(port)

\* the IDs a service can be registered under
AgentIDs ==
    (ConfigIDs \ {""})
        \cup { DefaultID(n, q) : n \in AgentNames \ {""}, q \in { x \in AgentPorts : x > 0 } }

\* no registration under an ID
NoReg ==
    [registered |-> FALSE, name |-> "", tags |-> <<>>, address |-> "", port |-> 0,
     meta |-> "", check |-> "none"]

\* no call yet: op is the function called, cfgNil, name, id, port and tags
\* its ServiceConfig, serviceID, checkNil, http and tcp the arguments of
\* AddHealthCheck, cfgID the caller's cfg.ID after the call, sent whether a
\* registration went to the agent, err what the call returned, n the calls so far
NoAgentCall ==
    [op |-> "none", cfgNil |-> FALSE, name |-> "", id |-> "", port |-> 0,
     tags |-> <<>>, serviceID |-> "", checkNil |-> FALSE, http |-> "", tcp |-> "",
     cfgID |-> "", sent |-> FALSE, err |-> "nil", n |-> 0]

AgentIdle ==
    /\ agentServices = [i \in AgentIDs |-> NoReg]
    /\ agentCall = NoAgentCall

\* a client that never watches a key
InvokerOnly(names, filters, strats, retries, timings) ==
    /\ InitInvoker(names, filters, strats, retries, timings)
    /\ ClientIdle /\ KVIdle /\ PureIdle /\ AgentIdle
    /\ kv = [present |-> FALSE, valid |-> TRUE, index |-> 1]
    /\ cancelled = FALSE
    /\ watch = [w \in Watchers |-> NoWatch]

\* invokers with the default timing
Init == InvokerOnly(ServiceNames, TagFilters, Strategies, RetryCounts, {DefaultTiming})

\* invokers without tags, with default and custom timing
TimedInit == InvokerOnly({"svc"}, {<<>>}, Strategies, RetryCounts, TimingOptions)

\* a round-robin invoker without retries that several goroutines share
ConcInit == InvokerOnly({"svc"}, {<<>>}, {RoundRobin}, {0}, {DefaultTiming})

(* ------------------------------ actions -------------------------------- *)

\* the registry's healthy set changes (register, deregister, health flip);
\* a lookup is the only reader, so the change is taken while a call is
\* about to look up or is in its retry loop
RegistryChange ==
    /\ \E p \in Goroutines : call[p].pc \in {"Resolving", "Calling"}
    /\ \E l \in RegistryLists : l # registry /\ registry' = l
    /\ UNCHANGED <<config, currentIndex, call, obs, run, calls, picked, watchVars, libVars>>

\* the locals when the entry point returns, ret being Call's return value
Finish(c, ret, hasTarget, bodyValid) ==
    [c EXCEPT !.pc = "Done",
              !.result = Outcome(c.entry, ret, hasTarget, bodyValid)]

\* entry into Call or CallJSON; CallJSON marshals the request body first
Begin(p, entry, marshalOk) ==
    /\ call[p].pc = "Idle"
    /\ calls < MaxCalls
    /\ calls' = calls + 1
    /\ obs' = [obs EXCEPT ![p] = IdleObs]
    /\ IF entry = "CallJSON" /\ ~marshalOk
       THEN call' = [call EXCEPT ![p] =
                [IdleCall EXCEPT !.pc = "Done", !.entry = entry,
                                 !.result = Failure("MarshalError")]]
       ELSE call' = [call EXCEPT ![p] =
                [IdleCall EXCEPT !.pc = "Resolving", !.entry = entry]]
    /\ UNCHANGED <<registry, config, currentIndex, run, picked, watchVars, libVars>>

\* the calls of one goroutine, one after the other
Invoke ==
    \E entry \in {"Call", "CallJSON"}, marshalOk \in BOOLEAN :
        /\ (entry = "Call" => marshalOk)
        /\ Begin(1, entry, marshalOk)

\* a lookup that is retried like a request
RetryLookupWithCount(lookups, count) == lookups <= count

\* a lookup that answers from the list of the previous call
LookupCached(reg, r) == IF r.picks # <<>> THEN r.elig ELSE reg

\* the list GetHealthyServices returns: what the registry holds now
LookupResult(reg, r) == reg

\* whether Call looks up again after a lookup that failed
RetryLookup(lookups, count) == FALSE

\* Call without its check on the list the lookup returned
NoneReturnedUnchecked(services) == FALSE

\* the check of Call on the list the lookup returned
NoneReturned(services) == Len(services) = 0

\* calls of several goroutines, which may overlap
InvokeAny(p) ==
    \E entry \in {"Call", "CallJSON"}, marshalOk \in BOOLEAN :
        /\ (entry = "Call" => marshalOk)
        /\ Begin(p, entry, marshalOk)

\* GetHealthyServices and the two checks on its result
Resolve(p) ==
    /\ call[p].pc = "Resolving"
    /\ IF serviceName = ""
       THEN /\ call' = [call EXCEPT ![p] =
                   Finish(@, Failure("LookupFailed"), FALSE, TRUE)]
            /\ obs' = [obs EXCEPT ![p].lookups = @ + 1]
            /\ run' = EmptyRun
       ELSE \E ok \in BOOLEAN :
            IF ~ok
            THEN /\ call' = IF RetryLookup(obs[p].lookups + 1, retryCount)
                            THEN call
                            ELSE [call EXCEPT ![p] =
                                    Finish(@, Failure("LookupFailed"), FALSE, TRUE)]
                 /\ obs' = [obs EXCEPT ![p].lookups = @ + 1, ![p].queries = @ + 1,
                                       ![p].lookupErr = TRUE]
                 /\ run' = EmptyRun
            ELSE /\ obs' = [obs EXCEPT ![p].lookups = @ + 1, ![p].queries = @ + 1,
                                       ![p].snapshot = registry]
                 /\ IF NoneReturned(LookupResult(registry, run))
                    THEN /\ call' = [call EXCEPT ![p] =
                                Finish(@, Failure("NoInstancesAvailable"), FALSE, TRUE)]
                         /\ run' = EmptyRun
                    ELSE /\ call' = [call EXCEPT ![p].pc = "Filtering",
                                                 ![p].services = LookupResult(registry, run)]
                         /\ run' = run
    /\ UNCHANGED <<registry, config, currentIndex, calls, picked, watchVars, libVars>>

\* the tag filter and the check on its result
Filter(p) ==
    /\ call[p].pc = "Filtering"
    /\ LET filtered == FilterOf(call[p].services, tags) IN
       IF Len(filtered) = 0
       THEN /\ call' = [call EXCEPT ![p] =
                   Finish([@ EXCEPT !.services = filtered],
                          Failure("NoMatchingTaggedInstances"), FALSE, TRUE)]
            /\ run' = EmptyRun
       ELSE /\ call' = [call EXCEPT ![p].pc = "Selecting", ![p].services = filtered]
            /\ run' = run
    /\ UNCHANGED <<registry, config, currentIndex, obs, calls, picked, watchVars, libVars>>

\* a round robin that selects the index after the cursor's
RoundRobinIndexNext(cur, n) == (cur + 1) % n

\* index into the eligible list that round robin selects
RoundRobinIndex(cur, n) == cur % n

\* a switch whose LeastConn case takes the last instance
SelectIndicesLast(strat, cur, n) ==
    IF strat = Random THEN 0..(n - 1)
    ELSE IF strat = RoundRobin THEN {cur % n}
    ELSE IF strat = LeastConn THEN {n - 1}
    ELSE {}

\* the indices of the eligible list that the switch on i.strategy can
\* select; none when the strategy is not one of the three cases
SelectIndices(strat, cur, n) ==
    IF strat = Random THEN 0..(n - 1)
    ELSE IF strat = RoundRobin THEN {RoundRobinIndex(cur, n)}
    ELSE IF strat = LeastConn THEN {0}
    ELSE {}

\* a switch in which every case advances the cursor
AdvancesCursorAlways(strat) == TRUE

\* the cases of the switch that execute i.currentIndex++
AdvancesCursor(strat) == strat = RoundRobin

\* the switch on i.strategy; currentIndex++ follows in IncLoad and IncStore
Select(p) ==
    /\ call[p].pc = "Selecting"
    /\ LET services == call[p].services
           choices == SelectIndices(strategy, currentIndex, Len(services))
       IN
       IF choices = {}
       THEN /\ call' = [call EXCEPT ![p].pc = "Building"]
            /\ obs' = obs
            /\ run' = EmptyRun
       ELSE \E k \in choices :
            /\ call' = [call EXCEPT
                  ![p].pc = IF AdvancesCursor(strategy) THEN "IncLoad" ELSE "Building",
                  ![p].selectedService = services[k + 1]]
            /\ obs' = [obs EXCEPT ![p].selections = @ + 1,
                                  ![p].cursor = currentIndex]
            /\ run' = IF strategy = RoundRobin
                      THEN RunAfter(run, services, currentIndex, k)
                      ELSE run
    /\ picked' = IF strategy = RoundRobin THEN picked + 1 ELSE picked
    /\ UNCHANGED <<registry, config, currentIndex, calls, watchVars, libVars>>

\* i.currentIndex++, the read
IncLoad(p) ==
    /\ call[p].pc = "IncLoad"
    /\ call' = [call EXCEPT ![p].pc = "IncStore", ![p].tmp = currentIndex]
    /\ UNCHANGED <<registry, config, currentIndex, obs, run, calls, picked, watchVars, libVars>>

\* a cursor that is never advanced
NextIndexStuck(cur) == cur

\* the value i.currentIndex++ writes, from the value it read
NextIndex(cur) == cur + 1

\* i.currentIndex++, the write
IncStore(p) ==
    /\ call[p].pc = "IncStore"
    /\ currentIndex' = NextIndex(call[p].tmp)
    /\ call' = [call EXCEPT ![p].pc = "Building", ![p].tmp = 0]
    /\ UNCHANGED <<registry, config, obs, run, calls, picked, watchVars, libVars>>

\* the URL from the selected instance, http.NewRequest and the headers;
\* a nil selectedService panics, a method http.NewRequest rejects is an error
Build(p) ==
    /\ call[p].pc = "Building"
    /\ IF call[p].selectedService = NilService
       THEN call' = [call EXCEPT ![p] = Finish(@, Failure("Panic"), FALSE, TRUE)]
       ELSE \E methodOk \in BOOLEAN :
            IF ~methodOk
            THEN call' = [call EXCEPT ![p] =
                     Finish([@ EXCEPT !.url = call[p].selectedService],
                            Failure("RequestError"), FALSE, TRUE)]
            ELSE call' = [call EXCEPT ![p].pc = "Calling",
                                      ![p].url = call[p].selectedService,
                                      ![p].services = <<>>,
                                      ![p].attempt = 0]
    /\ obs' = IF call'[p].pc = "Calling"
              THEN [obs EXCEPT ![p].snapshot = NoSnapshot]
              ELSE obs
    /\ UNCHANGED <<registry, config, currentIndex, run, calls, picked, watchVars, libVars>>

\* a retry that goes to the first instance the registry holds now
AttemptTargetReselect(c, reg) == IF Len(reg) > 0 THEN reg[1] ELSE c.url

\* the instance the request of this attempt goes to
AttemptTarget(c, reg) == c.url

\* a retry loop that tries one more time
MoreAttemptsLong(attempt, count) == attempt <= count + 1

\* a retry loop that stops one attempt early
MoreAttemptsShort(attempt, count) == attempt < count

\* the loop condition of the retry loop
MoreAttempts(attempt, count) == attempt <= count

\* lastErr that keeps the error of the first failed attempt
LastErrFirst(old, e) == IF old = NoErr THEN e ELSE old

\* lastErr after an attempt failed with e
LastErrAfter(old, e) == e

\* a retry loop that also retries a 5xx response
RetryOnServerError(code) == code >= 500

\* whether a request that got a response is followed by another one
RetryOnStatus(code) == FALSE

\* a sleep that grows with the attempt
SleepTimeGrowing(interval, attempt) == interval * (attempt + 1)

\* the time Call sleeps after failed attempt number attempt + 1
SleepTime(interval, attempt) == interval

\* one pass of the retry loop: httpClient.Do, then return or sleep
Attempt(p) ==
    /\ call[p].pc = "Calling"
    /\ MoreAttempts(call[p].attempt, retryCount)
    /\ LET c == call[p]
           target == AttemptTarget(c, registry)
           sentObs == [obs EXCEPT ![p].sent = @ + 1,
                                  ![p].targets = @ \cup {target}]
       IN
       \/ \E st \in StatusCodes, hasTarget, bodyValid \in BOOLEAN :
            /\ c.entry = "CallJSON" \/ ~hasTarget
            /\ (c.entry = "CallJSON" /\ Is2xx(st)) \/ bodyValid
            /\ IF RetryOnStatus(st)
               THEN call' = [call EXCEPT ![p].attempt = @ + 1]
               ELSE call' = [call EXCEPT ![p] =
                       Finish(c, [kind |-> "Response", status |-> st,
                                  attempts |-> 0, err |-> NoErr],
                              hasTarget, bodyValid)]
            /\ obs' = [sentObs EXCEPT ![p].doErr = NoErr,
                                      ![p].status = st,
                                      ![p].hasTarget = hasTarget,
                                      ![p].bodyValid = bodyValid]
       \/ \E e \in TransportErrors :
            /\ call' = [call EXCEPT ![p].lastErr = LastErrAfter(@, e),
                                    ![p].attempt = @ + 1]
            /\ obs' = [sentObs EXCEPT ![p].fails = @ + 1,
                                      ![p].doErr = e,
                                      ![p].sleeps = IF c.attempt < retryCount
                                                    THEN @ + 1 ELSE @,
                                      ![p].waits = IF c.attempt < retryCount
                                                   THEN @ \cup {SleepTime(retryInterval, c.attempt)}
                                                   ELSE @]
    /\ UNCHANGED <<registry, config, currentIndex, run, calls, picked, watchVars, libVars>>

\* the retry loop is left without a response
Exhaust(p) ==
    /\ call[p].pc = "Calling"
    /\ ~MoreAttempts(call[p].attempt, retryCount)
    /\ call' = [call EXCEPT ![p] =
          Finish(@, [kind |-> "TransportExhausted", status |-> 0,
                     attempts |-> retryCount + 1, err |-> call[p].lastErr],
                 FALSE, TRUE)]
    /\ UNCHANGED <<registry, config, currentIndex, obs, run, calls, picked, watchVars, libVars>>

\* the caller has the result; the goroutine is free for its next call
Return(p) ==
    /\ call[p].pc = "Done"
    /\ call' = [call EXCEPT ![p] = IdleCall]
    /\ obs' = [obs EXCEPT ![p] = IdleObs]
    /\ UNCHANGED <<registry, config, currentIndex, run, calls, picked, watchVars, libVars>>

Next ==
    \/ RegistryChange
    \/ Invoke
    \/ \E p \in Goroutines : Resolve(p)
    \/ \E p \in Goroutines : Filter(p)
    \/ \E p \in Goroutines : Select(p)
    \/ \E p \in Goroutines : IncLoad(p)
    \/ \E p \in Goroutines : IncStore(p)
    \/ \E p \in Goroutines : Build(p)
    \/ \E p \in Goroutines : Attempt(p)
    \/ \E p \in Goroutines : Exhaust(p)
    \/ \E p \in Goroutines : Return(p)

Spec == Init /\ [][Next]_vars

SpecTimed == TimedInit /\ [][Next]_vars

NextConc ==
    \/ \E p \in Goroutines : InvokeAny(p)
    \/ \E p \in Goroutines : Resolve(p)
    \/ \E p \in Goroutines : Filter(p)
    \/ \E p \in Goroutines : Select(p)
    \/ \E p \in Goroutines : IncLoad(p)
    \/ \E p \in Goroutines : IncStore(p)
    \/ \E p \in Goroutines : Build(p)
    \/ \E p \in Goroutines : Attempt(p)
    \/ \E p \in Goroutines : Exhaust(p)
    \/ \E p \in Goroutines : Return(p)

SpecConc == ConcInit /\ [][NextConc]_vars

(* ------------------------------ WatchConfig ----------------------------- *)

\* a client whose invoker is idle and on which WatchConfig may be called
WatchInit ==
    /\ InitInvoker({"svc"}, {<<>>}, {RoundRobin}, {3}, {DefaultTiming})
    /\ registry = <<>>
    /\ NoWatchers
    /\ ClientIdle /\ KVIdle /\ PureIdle /\ AgentIdle

\* another client writes or deletes the watched key
KVChange ==
    /\ kv.index < MaxIndex
    /\ \E present \in BOOLEAN, valid \in BOOLEAN :
          /\ (~present => valid)
          /\ kv' = [present |-> present, valid |-> valid, index |-> kv.index + 1]
    /\ UNCHANGED <<invokerVars, libVars, cancelled, watch>>

\* the cancellation signal: the client's context becomes done and stays so
Cancel ==
    /\ ~cancelled
    /\ cancelled' = TRUE
    /\ UNCHANGED <<invokerVars, libVars, kv, watch>>

\* what WatchConfig returns for a key, the outcome of the initial read and
\* the key's state
WatchResult(keyOk, getOk, k) ==
    IF ~keyOk THEN "EmptyKey"
    ELSE IF ~getOk THEN "InitialGetFailed"
    ELSE IF k.present /\ ~k.valid THEN "InitialParseFailed"
    ELSE "nil"

\* a WatchConfig that starts its goroutine whatever it returns
StartsWatcherAlways(r) == TRUE

\* whether WatchConfig reaches its go statement: every error returns first
StartsWatcher(r) == r = "nil"

\* WatchConfig: the checks, the initial read and, when they pass, the start
\* of the goroutine with waitIndex 0
WatchConfig(w) ==
    /\ watch[w].res = "none"
    /\ \E keyOk \in BOOLEAN, getOk \in BOOLEAN :
          LET r == WatchResult(keyOk, getOk, kv) IN
          watch' = [watch EXCEPT ![w] =
              [res |-> r,
               pc |-> IF StartsWatcher(r) THEN "Select" ELSE "None",
               waitIndex |-> 0,
               cfg |-> IF r = "nil" /\ kv.present THEN kv.index ELSE 0,
               failed |-> "none"]]
    /\ UNCHANGED <<invokerVars, libVars, kv, cancelled>>

\* the select at the head of the loop: return when the context is done,
\* else issue the blocking query with the goroutine's waitIndex
WatchSelect(w) ==
    /\ watch[w].pc = "Select"
    /\ watch' = [watch EXCEPT ![w].pc = IF cancelled THEN "Stopped" ELSE "Querying"]
    /\ UNCHANGED <<invokerVars, libVars, kv, cancelled>>

\* a goroutine that ends when its query fails
AfterQueryErrorStops == "Stopped"

\* where the goroutine goes when its query fails: to time.Sleep
AfterQueryError == "Sleeping"

\* a goroutine that takes a value for new only two changes after waitIndex
ParsesValueSkipping(k, waitIndex) == k.present /\ k.index > waitIndex + 1

\* whether the goroutine parses what the query returned
ParsesValue(k, waitIndex) == k.present /\ k.index > waitIndex

\* the blocking query returns, at the latest after WaitTime, with an error
\* or with the key's state; the rest of the iteration follows
WatchQuery(w) ==
    /\ watch[w].pc = "Querying"
    /\ \E ok \in BOOLEAN :
          watch' = [watch EXCEPT ![w] =
              IF ~ok
              THEN [@ EXCEPT !.pc = AfterQueryError, !.failed = "query"]
              ELSE IF ParsesValue(kv, watch[w].waitIndex) /\ ~kv.valid
              THEN [@ EXCEPT !.pc = "Select", !.failed = "parse"]
              ELSE [@ EXCEPT !.pc = "Select",
                             !.failed = "none",
                             !.cfg = IF ParsesValue(kv, watch[w].waitIndex)
                                     THEN kv.index ELSE watch[w].cfg,
                             !.waitIndex = kv.index]]
    /\ UNCHANGED <<invokerVars, libVars, kv, cancelled>>

\* time.Sleep(opts.RetryTime) ends and the loop continues
WatchSleep(w) ==
    /\ watch[w].pc = "Sleeping"
    /\ watch' = [watch EXCEPT ![w].pc = "Select", ![w].failed = "none"]
    /\ UNCHANGED <<invokerVars, libVars, kv, cancelled>>

NextWatch ==
    \/ KVChange
    \/ Cancel
    \/ \E w \in Watchers : WatchConfig(w)
    \/ \E w \in Watchers : WatchSelect(w)
    \/ \E w \in Watchers : WatchQuery(w)
    \/ \E w \in Watchers : WatchSleep(w)

\* the goroutine is scheduled, every query returns and every sleep ends
WatchFairness ==
    \A w \in Watchers :
        /\ WF_vars(WatchSelect(w))
        /\ WF_vars(WatchQuery(w))
        /\ WF_vars(WatchSleep(w))

SpecWatch == WatchInit /\ [][NextWatch]_vars /\ WatchFairness

\* a query of the goroutine that returns without error
WatchQueryOk(w) == WatchQuery(w) /\ watch'[w].failed # "query"

\* the watcher when, besides, its queries do not fail for ever
SpecWatchLive ==
    /\ WatchInit /\ [][NextWatch]_vars /\ WatchFairness
    /\ \A w \in Watchers : SF_vars(WatchQueryOk(w))

WatchTypeOK ==
    /\ kv \in [present : BOOLEAN, valid : BOOLEAN, index : 1..MaxIndex]
    /\ cancelled \in BOOLEAN
    /\ watch \in [Watchers ->
          [res : {"none", "nil", "EmptyKey", "InitialGetFailed", "InitialParseFailed"},
           pc : {"None", "Select", "Querying", "Sleeping", "Stopped"},
           waitIndex : 0..MaxIndex,
           cfg : 0..MaxIndex,
           failed : {"none", "query", "parse"}]]

(* ------------------------------- NewClient ----------------------------- *)

\* the values passed to WithMaxRetries and WithRetryTime; 3 and 3 seconds
\* are the defaults
ClientRetries == (0 - 1)..MaxClientRetries
ClientRetryTimes == {3, 1}

\* an invoker and a watcher that are not used
OthersIdle ==
    /\ InitInvoker({"svc"}, {<<>>}, {RoundRobin}, {3}, {DefaultTiming})
    /\ registry = <<>>
    /\ kv = [present |-> FALSE, valid |-> TRUE, index |-> 1]
    /\ cancelled = FALSE
    /\ watch = [w \in Watchers |-> NoWatch]

\* the Config after the options, before NewClient creates the API client
NewClientInit ==
    /\ OthersIdle /\ KVIdle /\ PureIdle /\ AgentIdle
    /\ \E m \in ClientRetries, t \in ClientRetryTimes :
          newClient = [NewClientIdle EXCEPT !.maxRetries = m, !.retryTime = t]

\* api.NewClient: an error ends NewClient before any connection test
NewClientCreate ==
    /\ newClient.pc = "Idle"
    /\ newClient.result = "none"
    /\ \E ok \in BOOLEAN :
          newClient' = IF ok
                       THEN [newClient EXCEPT !.pc = "Testing", !.i = 0]
                       ELSE [newClient EXCEPT !.pc = "Done", !.result = "CreateError"]
    /\ UNCHANGED <<invokerVars, watchVars, agentVars, kvVars, pureVars>>

\* a loop that tests once more than maxRetries allows
MoreTestsLong(i, maxRetries) == i <= maxRetries + 1

\* the condition of the connection-test loop
MoreTests(i, maxRetries) == i <= maxRetries

\* whether NewClient sleeps after the failed test i
SleepsAfter(i, maxRetries) == i < maxRetries

\* one connection test: success returns the Client, failure records the
\* error and goes to the sleep or to the next turn of the loop
ConnTest ==
    /\ newClient.pc = "Testing"
    /\ MoreTests(newClient.i, newClient.maxRetries)
    /\ \E err \in {NoErr} \cup TransportErrors :
          newClient' =
            IF err = NoErr
            THEN [newClient EXCEPT !.pc = "Done", !.result = "Client",
                                   !.tests = @ + 1]
            ELSE IF SleepsAfter(newClient.i, newClient.maxRetries)
            THEN [newClient EXCEPT !.pc = "Sleeping", !.lastErr = err,
                                   !.tests = @ + 1, !.fails = @ + 1,
                                   !.sleeps = @ + 1,
                                   !.waits = @ \cup {newClient.retryTime}]
            ELSE [newClient EXCEPT !.lastErr = err, !.i = @ + 1,
                                   !.tests = @ + 1, !.fails = @ + 1]
    /\ UNCHANGED <<invokerVars, watchVars, agentVars, kvVars, pureVars>>

\* time.Sleep(cfg.retryTime) ends and the loop goes to its next turn
ConnSleep ==
    /\ newClient.pc = "Sleeping"
    /\ newClient' = [newClient EXCEPT !.pc = "Testing", !.i = @ + 1]
    /\ UNCHANGED <<invokerVars, watchVars, agentVars, kvVars, pureVars>>

\* the attempt count that the final error states
ReportedAttempts(maxRetries) == maxRetries

\* the loop is over without a successful test: the final error
ConnGiveUp ==
    /\ newClient.pc = "Testing"
    /\ ~MoreTests(newClient.i, newClient.maxRetries)
    /\ newClient' = [newClient EXCEPT !.pc = "Done", !.result = "ConnectError",
                                      !.reported = ReportedAttempts(newClient.maxRetries)]
    /\ UNCHANGED <<invokerVars, watchVars, agentVars, kvVars, pureVars>>

NextClient ==
    \/ NewClientCreate
    \/ ConnTest
    \/ ConnSleep
    \/ ConnGiveUp

\* NewClient runs on: each connection test returns and each sleep ends
ClientFairness == WF_vars(NextClient)

SpecClient == NewClientInit /\ [][NextClient]_vars /\ ClientFairness

(* ------------------------- Put, Get, Delete, CAS ----------------------- *)

KVKeys == {"", "k"}
KVValues == {"a", "b"}
KVOps == {"Put", "Get", "Delete", "CAS"}

\* the value a goroutine writes: the first goroutine writes "b", the others
\* write "a", which is also the value stored at the start
ValueOf(p) == IF p = 1 THEN "b" ELSE "a"

RECURSIVE BegunBy(_)
\* the operations the goroutines of set S have begun
BegunBy(S) ==
    IF S = {} THEN 0
    ELSE LET p == CHOOSE x \in S : TRUE IN kvops[p].n + BegunBy(S \ {p})

\* the store at the start: without the key or with a value written before
KVInit ==
    /\ OthersIdle /\ ClientIdle /\ PureIdle /\ AgentIdle
    /\ store \in {EmptyStore,
                  [present |-> TRUE, value |-> "a", modify |-> 1, index |-> 1, gen |-> 0]}
    /\ kvops = [p \in KVClients |-> IdleOp]

\* the error each operation wraps a failed request in
RequestFailure(op) ==
    IF op \in {"Put", "PutWithOptions"} THEN "PutFailed"
    ELSE IF op \in {"Get", "GetWithOptions"} THEN "GetFailed"
    ELSE IF op = "Delete" THEN "DeleteFailed"
    ELSE "CASFailed"

\* operations that send whatever key they get
RefusesKeyNever(key) == FALSE

\* the check at the head of every operation
RefusesKey(key) == key = ""

\* entry into Put, Get, Delete or CAS: an empty key is refused before any
\* request, else the request goes out
KVBegin(p) ==
    /\ kvops[p].pc = "Idle"
    /\ BegunBy(KVClients) < MaxKVOps
    /\ \E op \in KVOps, key \in KVKeys, version \in 0..store.index :
          /\ ((op # "CAS" \/ key = "") => version = 0)
          /\ LET value == ValueOf(p)
                 o == [IdleOp EXCEPT
                         !.op = op, !.key = key, !.version = version,
                         !.value = IF op \in {"Get", "Delete"} THEN NilValue ELSE value,
                         !.prev = kvops[p].prev, !.n = kvops[p].n + 1]
             IN kvops' = [kvops EXCEPT ![p] =
                   IF RefusesKey(key)
                   THEN [o EXCEPT !.pc = "Done", !.err = "EmptyKey"]
                   ELSE [o EXCEPT !.pc = "Sent", !.sent = TRUE]]
    /\ UNCHANGED <<invokerVars, watchVars, agentVars, clientVars, pureVars, store>>

\* entry into GetWithOptions or PutWithOptions: PutWithOptions refuses a nil
\* pair, both refuse an empty key, else the request goes out
KVBeginWithOptions(p) ==
    /\ kvops[p].pc = "Idle"
    /\ BegunBy(KVClients) < MaxKVOps
    /\ \E op \in {"GetWithOptions", "PutWithOptions"}, key \in KVKeys,
          nilPair \in BOOLEAN :
          /\ nilPair => (op = "PutWithOptions" /\ key = "")
          /\ LET o == [IdleOp EXCEPT
                         !.op = op, !.key = key, !.nilPair = nilPair,
                         !.value = IF op = "GetWithOptions" \/ nilPair
                                   THEN NilValue ELSE ValueOf(p),
                         !.prev = kvops[p].prev, !.n = kvops[p].n + 1]
             IN kvops' = [kvops EXCEPT ![p] =
                   IF nilPair
                   THEN [o EXCEPT !.pc = "Done", !.err = "NilPair"]
                   ELSE IF RefusesKey(key)
                   THEN [o EXCEPT !.pc = "Done", !.err = "EmptyKey"]
                   ELSE [o EXCEPT !.pc = "Sent", !.sent = TRUE]]
    /\ UNCHANGED <<invokerVars, watchVars, agentVars, clientVars, pureVars, store>>

\* a CAS that sends no version
CASRequestUnversioned(key, value, version) ==
    [key |-> key, value |-> value, modify |-> 0]

\* the pair CAS sends: the version goes out as ModifyIndex
CASRequest(key, value, version) ==
    [key |-> key, value |-> value, modify |-> version]

\* the registry's check-and-set rule: index 0 writes only an absent key,
\* another index writes only a key whose ModifyIndex it is
CASMatches(st, req) ==
    IF req.modify = 0 THEN ~st.present
    ELSE st.present /\ st.modify = req.modify

\* the store after it took a write of value
Written(st, value) ==
    [st EXCEPT !.present = TRUE, !.value = value,
               !.modify = st.index + 1, !.index = st.index + 1]

\* the store after it took a delete
Deleted(st) ==
    [st EXCEPT !.present = FALSE, !.value = NilValue, !.modify = 0,
               !.index = st.index + 1, !.gen = st.gen + 1]

\* a Get that reports an absent key as an error
GetReturnAbsentError(st) ==
    IF ~st.present THEN [val |-> NilValue, err |-> "NotFound"]
    ELSE [val |-> st.value, err |-> "nil"]

\* what Get returns for the pair the registry answered with
GetReturn(st) ==
    IF ~st.present THEN [val |-> NilValue, err |-> "nil"]
    ELSE [val |-> st.value, err |-> "nil"]

\* what the operation has seen of the store
SeenOf(st) ==
    [present |-> st.present, modify |-> st.modify, index |-> st.index, gen |-> st.gen]

\* the registry takes the request, in one step, and the operation returns:
\* a failed request leaves the store as it is
KVServe(p) ==
    /\ kvops[p].pc = "Sent"
    /\ LET o == kvops[p]
           req == CASRequest(o.key, o.value, o.version)
           done == [o EXCEPT !.pc = "Done", !.seen = SeenOf(store)]
       IN \E ok \in BOOLEAN :
          /\ (o.op \notin {"Get", "GetWithOptions"} /\ store.index >= MaxWrites) => ~ok
          /\ IF ~ok
             THEN /\ kvops' = [kvops EXCEPT ![p] =
                         [o EXCEPT !.pc = "Done", !.reqErr = TRUE,
                                   !.err = RequestFailure(o.op)]]
                  /\ store' = store
             ELSE IF o.op \in {"Get", "GetWithOptions"}
             THEN /\ kvops' = [kvops EXCEPT ![p] =
                         [done EXCEPT !.val = GetReturn(store).val,
                                      !.err = GetReturn(store).err]]
                  /\ store' = store
             ELSE IF o.op \in {"Put", "PutWithOptions"}
             THEN /\ store' = Written(store, o.value)
                  /\ kvops' = [kvops EXCEPT ![p] =
                         [done EXCEPT !.stamp = store.index + 1]]
             ELSE IF o.op = "Delete"
             THEN /\ store' = Deleted(store)
                  /\ kvops' = [kvops EXCEPT ![p] =
                         [done EXCEPT !.stamp = store.index + 1]]
             ELSE IF CASMatches(store, req)
             THEN /\ store' = Written(store, req.value)
                  /\ kvops' = [kvops EXCEPT ![p] =
                         [done EXCEPT !.swapped = TRUE, !.stamp = store.index + 1]]
             ELSE /\ store' = store
                  /\ kvops' = [kvops EXCEPT ![p] = [done EXCEPT !.swapped = FALSE]]
    /\ UNCHANGED <<invokerVars, watchVars, agentVars, clientVars, pureVars>>

\* the goroutine's last write that succeeded, after operation o
PrevAfter(o) ==
    IF o.err = "nil" /\ (o.op \in {"Put", "PutWithOptions", "Delete"}
                          \/ (o.op = "CAS" /\ o.swapped))
    THEN [op |-> o.op, value |-> o.value, stamp |-> o.stamp]
    ELSE o.prev

\* the caller has the return values and may call again
KVReturn(p) ==
    /\ kvops[p].pc = "Done"
    /\ BegunBy(KVClients) < MaxKVOps
    /\ kvops' = [kvops EXCEPT ![p] =
          [IdleOp EXCEPT !.prev = PrevAfter(kvops[p]), !.n = kvops[p].n]]
    /\ UNCHANGED <<invokerVars, watchVars, agentVars, clientVars, pureVars, store>>

NextKV ==
    \/ \E p \in KVClients : KVBegin(p)
    \/ \E p \in KVClients : KVServe(p)
    \/ \E p \in KVClients : KVReturn(p)

SpecKV == KVInit /\ [][NextKV]_vars

\* one goroutine that uses all six operations
NextKVArgs ==
    \/ KVBegin(1)
    \/ KVBeginWithOptions(1)
    \/ KVServe(1)
    \/ KVReturn(1)

SpecKVArgs == KVInit /\ [][NextKVArgs]_vars

TypeOK ==
    /\ registry \in RegistryLists
    /\ currentIndex \in 0..MaxCalls
    /\ calls \in 0..MaxCalls
    /\ \A p \in Goroutines : call[p].pc \in
         {"Idle", "Resolving", "Filtering", "Selecting", "IncLoad", "IncStore",
          "Building", "Calling", "Done"}

(* ------------------------------ properties ----------------------------- *)

\* instance s carries every required tag
HasEveryTag(s) == Range(tags) \subseteq Range(InstTags(s))

\* the invocation of p has passed the tag filter and not yet built its request
Filtered(p) == call[p].pc \in {"Selecting", "IncLoad", "IncStore", "Building"}

\* the invocation of p has entered the retry loop
ReachedCalling(p) ==
    \/ call[p].pc = "Calling"
    \/ call[p].pc = "Done" /\ call[p].url # 0 /\ call[p].result.kind # "RequestError"

NonSuccess(st) == st \notin 200..299

\* C1: the selected instance carries every required tag, the eligible list
\* is the returned list restricted to the instances that carry every
\* required tag, and with no required tags it is the whole returned list
C1_SelectedHasRequiredTags ==
    \A p \in Goroutines :
        /\ call[p].selectedService # NilService => HasEveryTag(call[p].selectedService)
        /\ \A t \in obs[p].targets : HasEveryTag(t)
        /\ Filtered(p) =>
             /\ Range(call[p].services) =
                  { s \in Range(obs[p].snapshot) : HasEveryTag(s) }
             /\ (Len(tags) = 0 => call[p].services = obs[p].snapshot)
             /\ (call[p].selectedService # NilService =>
                   call[p].selectedService \in Range(call[p].services))

\* C1 witness: an instance is selected from a returned list that also holds
\* an instance without the required tags
C1_Witness ==
    \E p \in Goroutines :
        /\ call[p].pc = "Building"
        /\ call[p].selectedService # NilService
        /\ Len(tags) > 0
        /\ \E s \in Range(obs[p].snapshot) : ~HasEveryTag(s)

\* C2: round robin over an unchanged eligible list of n instances selects
\* index (cursor + j) mod n in the j-th call of the run, so any n calls in a
\* row select every index once, in index order; a fresh invoker with
\* eligible list [1, 2, 3] selects 1, 2, 3
C2_RoundRobinCycles ==
    strategy = RoundRobin =>
        LET n == Len(run.elig)
            m == Len(run.picks)
        IN  /\ \A j \in 1..m : run.picks[j] = (run.cur0 + j - 1) % n
            /\ \A a \in 1..m : a + n - 1 <= m =>
                 /\ { run.picks[j] : j \in a..(a + n - 1) } = 0..(n - 1)
                 /\ \A j \in a..(a + n - 1) :
                      run.picks[j] = (run.picks[a] + (j - a)) % n
            /\ (run.elig = <<1, 2, 3>> /\ run.cur0 = 0 /\ m >= 3) =>
                 /\ run.elig[run.picks[1] + 1] = 1
                 /\ run.elig[run.picks[2] + 1] = 2
                 /\ run.elig[run.picks[3] + 1] = 3

\* C2 witness: three round-robin calls in a row on the eligible list [1, 2, 3]
C2_Witness ==
    /\ strategy = RoundRobin
    /\ run.elig = <<1, 2, 3>>
    /\ Len(run.picks) = 3

\* C3: an invocation whose transport attempts all failed made retryCount+1
\* attempts and returns TransportExhausted with attempt count retryCount+1
\* and the error of the last attempt
C3_ExhaustedAfterAllAttempts ==
    \A p \in Goroutines :
        (call[p].pc = "Done" /\ obs[p].sent >= 1 /\ obs[p].fails = obs[p].sent) =>
            /\ call[p].result.kind = "TransportExhausted"
            /\ obs[p].sent = retryCount + 1
            /\ call[p].result.attempts = retryCount + 1
            /\ call[p].result.attempts = obs[p].sent
            /\ call[p].result.err = obs[p].doErr
            /\ call[p].result.err \in TransportErrors

\* C3 witness: every attempt failed, with different errors, retryCount >= 1
C3_Witness ==
    \E p \in Goroutines :
        /\ call[p].pc = "Done"
        /\ retryCount = MaxRetry
        /\ obs[p].fails = retryCount + 1
        /\ call[p].result.kind = "TransportExhausted"
        /\ call[p].result.err = "timeout"

\* C4: an invocation that entered the retry loop ends either with the
\* response of attempt k+1 after k failures, k <= retryCount, and no
\* attempt after it, or with TransportExhausted after no response and, for
\* retryCount >= 0, retryCount+1 failures; never both
C4_ResponseOrExhausted ==
    \A p \in Goroutines :
        (call[p].pc = "Done" /\ ReachedCalling(p)) =>
            \/ /\ obs[p].status # 0
               /\ obs[p].sent = obs[p].fails + 1
               /\ obs[p].fails \in 0..retryCount
               /\ call[p].result.kind # "TransportExhausted"
               /\ call[p].entry = "Call" =>
                    /\ call[p].result.kind = "Response"
                    /\ call[p].result.status = obs[p].status
            \/ /\ obs[p].status = 0
               /\ obs[p].sent = obs[p].fails
               /\ call[p].result.kind = "TransportExhausted"
               /\ retryCount >= 0 => obs[p].fails = retryCount + 1

\* C4 witness: Call returns the response of the last permitted attempt
C4_Witness ==
    \E p \in Goroutines :
        /\ call[p].pc = "Done"
        /\ call[p].entry = "Call"
        /\ retryCount >= 1
        /\ obs[p].fails = retryCount
        /\ call[p].result.kind = "Response"

\* C5: a response with a non-2xx status ends the invocation: it is the
\* last attempt, and when it answers the first attempt the invocation made
\* one attempt
C5_NoRetryOnStatus ==
    \A p \in Goroutines :
        (obs[p].status # 0 /\ NonSuccess(obs[p].status)) =>
            /\ call[p].pc = "Done"
            /\ obs[p].sent = obs[p].fails + 1
            /\ (obs[p].fails = 0 => obs[p].sent = 1)

\* C5 witness: status 500 on the first attempt of a CallJSON with retries left
C5_Witness ==
    \E p \in Goroutines :
        /\ call[p].pc = "Done"
        /\ call[p].entry = "CallJSON"
        /\ obs[p].status = 500
        /\ obs[p].sent = 1
        /\ retryCount >= 1

C7_NoTagMatchFails ==
    \A p \in Goroutines :
        (/\ obs[p].snapshot # NoSnapshot
         /\ Len(obs[p].snapshot) > 0
         /\ \A s \in Range(obs[p].snapshot) : ~HasEveryTag(s)) =>
            /\ call[p].pc \in {"Filtering", "Done"}
            /\ call[p].pc = "Done" =>
                 call[p].result.kind = "NoMatchingTaggedInstances"
            /\ call[p].selectedService = NilService
            /\ call[p].url = 0
            /\ obs[p].selections = 0
            /\ obs[p].sent = 0

\* C7 witness: a call ends with NoMatchingTaggedInstances on a list of two
C7_Witness ==
    \E p \in Goroutines :
        /\ call[p].pc = "Done"
        /\ call[p].result.kind = "NoMatchingTaggedInstances"
        /\ Len(obs[p].snapshot) = 2

\* C8: when the lookup returned no instance the invocation ends at once with
\* NoInstancesAvailable and sends nothing; NoInstancesAvailable is returned
\* only then and NoMatchingTaggedInstances only for a list with instances
C8_NoInstancesFails ==
    \A p \in Goroutines :
        /\ obs[p].snapshot = <<>> =>
             /\ call[p].pc = "Done"
             /\ call[p].result.kind = "NoInstancesAvailable"
             /\ obs[p].lookups = 1
             /\ obs[p].selections = 0
             /\ obs[p].sent = 0
        /\ call[p].result.kind = "NoInstancesAvailable" => obs[p].snapshot = <<>>
        /\ call[p].result.kind = "NoMatchingTaggedInstances" =>
             /\ obs[p].snapshot # NoSnapshot
             /\ Len(obs[p].snapshot) > 0

\* C8 witness: NoInstancesAvailable for an invoker with required tags
C8_Witness ==
    \E p \in Goroutines :
        /\ call[p].pc = "Done"
        /\ call[p].result.kind = "NoInstancesAvailable"
        /\ Len(tags) > 0

\* C9: after a registry query failed the invocation has ended with
\* LookupFailed after one lookup, with nothing selected and nothing sent
C9_LookupFailureNotRetried ==
    \A p \in Goroutines :
        /\ obs[p].lookupErr =>
             /\ call[p].pc = "Done"
             /\ call[p].result.kind = "LookupFailed"
        /\ call[p].result.kind = "LookupFailed" =>
             /\ obs[p].lookups = 1
             /\ obs[p].queries <= 1
             /\ obs[p].selections = 0
             /\ obs[p].sent = 0
             /\ call[p].selectedService = NilService

\* C9 witness: the registry query of an invoker with retries failed
C9_Witness ==
    \E p \in Goroutines :
        /\ call[p].pc = "Done"
        /\ call[p].result.kind = "LookupFailed"
        /\ obs[p].queries = 1
        /\ retryCount >= 1

\* C10: an invocation selects at most once, has selected once when it
\* sends, and sends every attempt to the instance it selected
C10_OneSelectionOneTarget ==
    \A p \in Goroutines :
        /\ obs[p].selections <= 1
        /\ (ReachedCalling(p) \/ obs[p].sent >= 1) =>
             /\ obs[p].selections = 1
             /\ call[p].url = call[p].selectedService
        /\ obs[p].targets \subseteq {call[p].selectedService}

\* C10 witness: a second attempt was sent to the selected instance after
\* the instance had left the registry's healthy set
C10_Witness ==
    \E p \in Goroutines :
        /\ obs[p].sent >= 2
        /\ obs[p].targets = {call[p].url}
        /\ call[p].url \notin Range(registry)

\* the first instance of list l that carries every required tag
FirstEligible(l) ==
    l[CHOOSE i \in 1..Len(l) :
        /\ HasEveryTag(l[i])
        /\ \A j \in 1..(i - 1) : ~HasEveryTag(l[j])]

\* C11: a call looks up once, before it filters and selects, and its
\* eligible list and its selection come from the list that lookup returned
C11_OneLookupFreshSnapshot ==
    \A p \in Goroutines :
        /\ obs[p].lookups <= 1
        /\ obs[p].queries <= 1
        /\ call[p].pc = "Filtering" => call[p].services = obs[p].snapshot
        /\ (call[p].pc = "Filtering" \/ Filtered(p) \/ ReachedCalling(p)) =>
             /\ obs[p].lookups = 1
             /\ obs[p].queries = 1
        /\ obs[p].selections >= 1 => obs[p].lookups = 1
        /\ Filtered(p) =>
             /\ Range(call[p].services) \subseteq Range(obs[p].snapshot)
             /\ (call[p].selectedService # NilService =>
                   call[p].selectedService \in Range(obs[p].snapshot))

\* C11 witness: the second call selects from the list [1] after the first
\* call selected from a longer list, which held instance 2
C11_Witness ==
    \E p \in Goroutines :
        /\ strategy = RoundRobin
        /\ Len(tags) = 0
        /\ calls = 2
        /\ call[p].pc = "IncLoad"
        /\ obs[p].snapshot = <<1>>
        /\ call[p].selectedService = 1
        /\ currentIndex = 1
        /\ run.cur0 = 1

\* C12 as stated: when no call is running, the cursor has advanced by the
\* number of round-robin selections made
C12_Original ==
    (\A p \in Goroutines : call[p].pc \in {"Idle", "Done"}) => currentIndex = picked

\* C13 as stated: with retryCount 3 no invocation gets a response on its
\* fourth attempt after three failed attempts
C13_Original ==
    \A p \in Goroutines :
        ~(retryCount = 3 /\ obs[p].fails = 3 /\ obs[p].sent = 4 /\ obs[p].status # 0)

\* C13 amended: with retryCount 3 an invocation makes at most four attempts,
\* so no invocation gets a response after four failed attempts
C13_NoFifthAttempt ==
    \A p \in Goroutines :
        retryCount = 3 =>
            /\ obs[p].sent <= 4
            /\ ~(obs[p].fails >= 4 /\ obs[p].status # 0)
            /\ obs[p].fails = 4 =>
                 (call[p].pc = "Done" => call[p].result.kind = "TransportExhausted")

\* C13 witness: retryCount 3, three failed attempts, a response on the fourth
C13_Witness ==
    \E p \in Goroutines :
        /\ retryCount = 3
        /\ call[p].pc = "Done"
        /\ obs[p].fails = 3
        /\ obs[p].sent = 4
        /\ obs[p].status = 200

\* the results that are the terminal state Success, and those that are Failed
SuccessKinds == {"Response", "Success"}
FailedKinds ==
    {"MarshalError", "LookupFailed", "NoInstancesAvailable",
     "NoMatchingTaggedInstances", "RequestError", "TransportExhausted",
     "ApplicationError", "DecodeError"}

\* C14 as stated: an invocation resolves, filters and selects once and in
\* that order, sends at most retryCount+1 requests and ends in Success or
\* in Failed
C14_Original ==
    \A p \in Goroutines :
        /\ obs[p].lookups <= 1
        /\ obs[p].selections <= 1
        /\ call[p].pc \in {"Resolving", "Filtering", "Selecting"} =>
             /\ obs[p].selections = 0
             /\ obs[p].sent = 0
        /\ call[p].pc = "Resolving" => obs[p].lookups = 0
        /\ obs[p].sent >= 1 => obs[p].sent <= retryCount + 1
        /\ call[p].pc = "Done" =>
             call[p].result.kind \in SuccessKinds \cup FailedKinds

\* C15: every sleep of an invocation lasts retryInterval; a failed attempt
\* is followed by a sleep exactly when another attempt follows, so a call
\* that got a response slept once per failure and an exhausted call that
\* made its retryCount+1 attempts slept retryCount times
C15_FixedIntervalBetweenAttempts ==
    \A p \in Goroutines :
        /\ obs[p].waits \subseteq {retryInterval}
        /\ (obs[p].sleeps > 0) = (obs[p].waits # {})
        /\ obs[p].sleeps <= obs[p].fails
        /\ (call[p].pc = "Calling" /\ call[p].attempt <= retryCount) =>
             obs[p].sleeps = obs[p].fails
        /\ (call[p].pc = "Done" /\ obs[p].status # 0) =>
             obs[p].sleeps = obs[p].fails
        /\ (call[p].pc = "Done" /\ obs[p].fails >= 1
              /\ call[p].result.kind = "TransportExhausted") =>
             /\ obs[p].sleeps = retryCount
             /\ obs[p].sleeps = obs[p].sent - 1

\* C15 witness: an exhausted call with retry interval 2 that slept twice
C15_Witness ==
    \E p \in Goroutines :
        /\ call[p].pc = "Done"
        /\ call[p].result.kind = "TransportExhausted"
        /\ retryInterval = 2
        /\ retryCount = 2
        /\ obs[p].sleeps = 2
        /\ obs[p].waits = {2}

\* C16: no step changes serviceName, tags, strategy, timeout, retryCount or
\* retryInterval, and the cursor changes only when the strategy is RoundRobin
C16_OnlyCursorChanges ==
    [][/\ config' = config
       /\ currentIndex' # currentIndex => strategy = RoundRobin]_vars

\* C16 witness: a round-robin call of an invoker with custom timing has
\* advanced the cursor and sent its request
C16_Witness ==
    \E p \in Goroutines :
        /\ strategy = RoundRobin
        /\ timeout = 10
        /\ call[p].pc = "Done"
        /\ obs[p].sent >= 1
        /\ currentIndex = 1

\* C17: for a 2xx answer CallJSON returns DecodeError when it has a target
\* and the body is not valid JSON for it, and succeeds when it has no target,
\* whatever the body is
C17_DecodeOnlyWithTarget ==
    \A p \in Goroutines :
        (/\ call[p].pc = "Done"
         /\ call[p].entry = "CallJSON"
         /\ obs[p].status \in 200..299) =>
            /\ (obs[p].hasTarget /\ ~obs[p].bodyValid) =>
                 call[p].result.kind = "DecodeError"
            /\ (obs[p].hasTarget /\ obs[p].bodyValid) =>
                 call[p].result.kind = "Success"
            /\ ~obs[p].hasTarget => call[p].result.kind = "Success"

\* C17 witness: CallJSON without a target succeeds on a body that is not JSON
C17_Witness ==
    \E p \in Goroutines :
        /\ call[p].pc = "Done"
        /\ call[p].entry = "CallJSON"
        /\ obs[p].status = 200
        /\ ~obs[p].hasTarget
        /\ ~obs[p].bodyValid
        /\ call[p].result.kind = "Success"

C19_WatcherStopsOnCancelOnly ==
    /\ [](\A w \in Watchers : watch[w].pc = "Stopped" => cancelled)
    /\ [][\A w \in Watchers :
            (watch'[w].pc = "Stopped" /\ watch[w].pc # "Stopped") =>
                (cancelled /\ watch[w].pc = "Select")]_vars
    /\ \A w \in Watchers :
          (cancelled /\ watch[w].res = "nil") ~> (watch[w].pc = "Stopped")

\* C19 witness: a watcher whose last iteration could not parse the value
\* was still running and stopped after the cancellation
C19_Witness ==
    \E w \in Watchers :
        /\ cancelled
        /\ watch[w].pc = "Stopped"
        /\ watch[w].failed = "parse"

\* C20 as stated: a watcher whose last iteration failed does not query
\* before it has slept
C20_Original ==
    \A w \in Watchers : watch[w].pc = "Querying" => watch[w].failed = "none"

\* C27: a sequential round-robin call selects the element at index
\* cursor mod len of its own eligible list and then adds exactly 1 to the
\* cursor, whatever the previous call's list was and whatever its requests
\* do; a call that ends before selection leaves the cursor as it was
C27_RoundRobinPicksAtCursor ==
    strategy = RoundRobin =>
        /\ currentIndex =
             IF \E p \in Goroutines : call[p].pc \in {"IncLoad", "IncStore"}
             THEN picked - 1 ELSE picked
        /\ \A p \in Goroutines :
            LET c == call[p]
                n == Len(c.services)
            IN  /\ c.pc \in {"IncLoad", "IncStore"} =>
                     /\ obs[p].cursor = currentIndex
                     /\ c.selectedService = c.services[(currentIndex % n) + 1]
                /\ c.pc = "Building" =>
                     /\ currentIndex = obs[p].cursor + 1
                     /\ c.selectedService = c.services[(obs[p].cursor % n) + 1]
                /\ (c.pc = "Done" /\ obs[p].selections = 1) =>
                     currentIndex = obs[p].cursor + 1
                /\ (c.pc = "Done" /\ obs[p].selections = 0) =>
                     /\ c.result.kind \in {"MarshalError", "LookupFailed",
                                           "NoInstancesAvailable",
                                           "NoMatchingTaggedInstances"}
                     /\ currentIndex = picked

\* C27 witness: the second of two selecting calls has an eligible list other
\* than the first call's, selected its second element at cursor 1, and all
\* its requests failed
C27_Witness ==
    \E p \in Goroutines :
        /\ strategy = RoundRobin
        /\ calls = 2
        /\ currentIndex = 2
        /\ run.cur0 = 1
        /\ Len(run.elig) = 2
        /\ call[p].pc = "Done"
        /\ call[p].result.kind = "TransportExhausted"
        /\ call[p].selectedService = run.elig[2]

\* C29 as stated: an invocation that passed selection and built its request
\* sends at least one request, and a reported exhaustion carries an error
C29_Original ==
    \A p \in Goroutines :
        (call[p].pc = "Done" /\ call[p].result.kind = "TransportExhausted") =>
             /\ obs[p].sent >= 1
             /\ call[p].result.attempts >= 1
             /\ call[p].result.err # NoErr

\* C30 as stated: a call with a non-empty eligible list reaches the building
\* of its request with one instance of that list selected
C30_Original ==
    \A p \in Goroutines :
        /\ call[p].pc = "Building" =>
             /\ call[p].selectedService # NilService
             /\ call[p].selectedService \in Range(call[p].services)
        /\ call[p].pc = "Done" => call[p].result.kind # "Panic"

C22_NewClientRetries ==
    /\ [](LET n == newClient
              most == IF n.maxRetries >= 0 THEN n.maxRetries + 1 ELSE 0
          IN  /\ n.tests <= most
              /\ n.waits \subseteq {n.retryTime}
              /\ (n.sleeps > 0) = (n.waits # {})
              /\ n.pc = "Sleeping" => (n.sleeps = n.tests /\ n.tests < most)
              /\ (n.pc = "Testing" /\ n.i <= n.maxRetries) => n.sleeps = n.tests
              /\ n.result = "Client" =>
                   /\ n.fails = n.tests - 1
                   /\ n.sleeps = n.tests - 1
              /\ n.result = "ConnectError" =>
                   /\ n.fails = n.tests
                   /\ n.tests = most
                   /\ n.tests >= 1 => n.sleeps = n.tests - 1
              /\ n.result = "CreateError" => n.tests = 0)
    /\ [][newClient.pc = "Done" => newClient' = newClient]_vars
    /\ <>(newClient.pc = "Done")

\* C22 witness: NewClient returned the Client on its third test, after two
\* failed tests and two sleeps of the configured second
C22_Witness ==
    /\ newClient.result = "Client"
    /\ newClient.retryTime = 1
    /\ newClient.tests = 3
    /\ newClient.fails = 2
    /\ newClient.sleeps = 2
    /\ newClient.waits = {1}

\* C23: a Get whose request did not fail returns no error; it returns nil
\* for an absent key, the value of the goroutine's own Put when no write
\* came after it, and nil after the goroutine's own Delete when no write
\* came after it
C23_KVRoundTrip ==
    \A p \in KVClients :
        LET o == kvops[p] IN
        (o.pc = "Done" /\ o.op = "Get" /\ o.sent /\ ~o.reqErr) =>
            /\ o.err = "nil"
            /\ ~o.seen.present => o.val = NilValue
            /\ (o.prev.op = "Put" /\ o.seen.index = o.prev.stamp) =>
                 (o.val = o.prev.value /\ o.val \in KVValues)
            /\ (o.prev.op = "Delete" /\ o.seen.index = o.prev.stamp) =>
                 o.val = NilValue

\* C23 witness: a goroutine read back the value it had put while the other
\* goroutine had written before that Put
C23_Witness ==
    \E p \in KVClients :
        /\ kvops[p].pc = "Done"
        /\ kvops[p].op = "Get"
        /\ kvops[p].err = "nil"
        /\ kvops[p].prev.op = "Put"
        /\ kvops[p].prev.stamp >= 2
        /\ kvops[p].seen.index = kvops[p].prev.stamp
        /\ kvops[p].val = "b"

\* the ModifyIndex of the key as an operation found it, 0 for an absent key
SeenModify(o) == IF o.seen.present THEN o.seen.modify ELSE 0

GetServiceTags == {"", "api", "v1", "v2"}

\* GetService is called with a name and a tag; the registry holds a list
GetServiceInit ==
    /\ OthersIdle /\ ClientIdle /\ KVIdle /\ AgentIdle /\ BuiltUnused /\ RequestUnused
    /\ \E n \in ServiceNames, t \in GetServiceTags, l \in RegistryLists :
          getService = [GetServiceIdle EXCEPT !.name = n, !.tag = t, !.services = l]

\* whether a tag list holds the tag: the inner loop with its break
HasTag(tagList, tag) == \E j \in 1..Len(tagList) : tagList[j] = tag

\* a filter that is applied for the empty tag too
FilterByTagAlways(services, tag) ==
    SelectSeq(services, LAMBDA s : HasTag(InstTags(s), tag))

\* the filter of GetService: applied only when a tag is given
FilterByTag(services, tag) ==
    IF tag # ""
    THEN SelectSeq(services, LAMBDA s : HasTag(InstTags(s), tag))
    ELSE services

\* GetService: GetHealthyServices, which refuses the empty name and may fail
\* at the registry, then the filter
GetService ==
    /\ getService.pc = "Idle"
    /\ \E ok \in BOOLEAN :
          getService' =
              IF getService.name = ""
              THEN [getService EXCEPT !.pc = "Done", !.err = "empty name"]
              ELSE IF ~ok
              THEN [getService EXCEPT !.pc = "Done", !.err = "lookup failed"]
              ELSE [getService EXCEPT
                        !.pc = "Done",
                        !.out = FilterByTag(getService.services, getService.tag)]
    /\ UNCHANGED <<invokerVars, watchVars, agentVars, clientVars, kvVars, built, request>>

NextGetService == GetService

SpecGetService == GetServiceInit /\ [][NextGetService]_vars

\* position of an instance in a list without repetitions
PositionIn(list, s) == CHOOSE i \in 1..Len(list) : list[i] = s

\* C25: GetService with a non-empty tag returns exactly the healthy instances
\* whose tag list contains the tag, each once and in the registry's order;
\* with the empty tag it returns the whole list; a failed lookup returns an
\* error and no instances
C25_GetServiceFilters ==
    getService.pc = "Done" =>
        LET g == getService
            keep == { s \in Range(g.services) : g.tag \in Range(InstTags(s)) }
        IN  /\ g.err # "nil" => g.out = <<>>
            /\ (g.err = "nil" /\ g.tag = "") => g.out = g.services
            /\ (g.err = "nil" /\ g.tag # "") =>
                  /\ Range(g.out) = keep
                  /\ Len(g.out) = Cardinality(keep)
                  /\ \A i, j \in 1..Len(g.out) :
                        i < j => PositionIn(g.services, g.out[i])
                                    < PositionIn(g.services, g.out[j])

C25_Witness ==
    /\ getService.pc = "Done" /\ getService.err = "nil"
    /\ getService.tag = "v1"
    /\ getService.services = <<1, 2, 3>>
    /\ getService.out = <<2, 3>>

(* --------------------------- NewServiceInvoker ------------------------- *)

\* the options, each with the fields it sets
WithTags(tagList) ==
    [kind |-> "WithTags", tags |-> tagList, strategy |-> 0, timeout |-> 0,
     count |-> 0, interval |-> 0]
WithStrategy(strat) ==
    [kind |-> "WithStrategy", tags |-> <<>>, strategy |-> strat, timeout |-> 0,
     count |-> 0, interval |-> 0]
WithInvokeTimeout(duration) ==
    [kind |-> "WithInvokeTimeout", tags |-> <<>>, strategy |-> 0,
     timeout |-> duration, count |-> 0, interval |-> 0]
WithRetry(count, interval) ==
    [kind |-> "WithRetry", tags |-> <<>>, strategy |-> 0, timeout |-> 0,
     count |-> count, interval |-> interval]

OptionKinds == {"WithTags", "WithStrategy", "WithInvokeTimeout", "WithRetry"}

\* options a caller passes
InvokerOptions ==
    { WithTags(<<"api">>), WithTags(<<"v1", "api">>),
      WithStrategy(Random), WithStrategy(LeastConn),
      WithInvokeTimeout(5), WithInvokeTimeout(60),
      WithRetry(0, 2), WithRetry(5, 1) }

\* option lists of up to MaxOpts options
RECURSIVE OptionLists(_)
OptionLists(n) ==
    IF n = 0 THEN { <<>> }
    ELSE LET shorter == OptionLists(n - 1)
         IN  shorter \cup { Append(l, o) : l \in shorter, o \in InvokerOptions }

\* one option applied to the invoker
ApplyOption(inv, o) ==
    CASE o.kind = "WithTags" -> [inv EXCEPT !.tags = o.tags]
      [] o.kind = "WithStrategy" -> [inv EXCEPT !.strategy = o.strategy]
      [] o.kind = "WithInvokeTimeout" ->
            [inv EXCEPT !.timeout = o.timeout, !.httpTimeout = o.timeout]
      [] o.kind = "WithRetry" ->
            [inv EXCEPT !.retryCount = o.count, !.retryInterval = o.interval]

RECURSIVE ApplyOptionsBackwards(_, _)
RECURSIVE ApplyOptions(_, _)

\* a loop that applies the options from the last to the first
ApplyOptionsBackwards(inv, opts) ==
    IF opts = <<>> THEN inv
    ELSE ApplyOption(ApplyOptionsBackwards(inv, Tail(opts)), Head(opts))

\* for _, opt := range opts { opt(invoker) }
ApplyOptions(inv, opts) ==
    IF opts = <<>> THEN inv
    ELSE ApplyOptions(ApplyOption(inv, Head(opts)), Tail(opts))

\* the assignment after the loop
SetHTTPTimeout(inv) == [inv EXCEPT !.httpTimeout = inv.timeout]

\* NewServiceInvoker is called with a list of options
BuiltInit ==
    /\ OthersIdle /\ ClientIdle /\ KVIdle /\ AgentIdle /\ GetServiceUnused /\ RequestUnused
    /\ \E l \in OptionLists(MaxOpts) : built = [BuiltIdle EXCEPT !.opts = l]

\* NewServiceInvoker: the literal, the options in order, the HTTP timeout
NewServiceInvoker ==
    /\ built.pc = "Idle"
    /\ built' = [built EXCEPT
                    !.pc = "Done",
                    !.inv = SetHTTPTimeout(ApplyOptions(NewInvoker, built.opts))]
    /\ UNCHANGED <<invokerVars, watchVars, agentVars, clientVars, kvVars, getService, request>>

NextBuilt == NewServiceInvoker

SpecBuilt == BuiltInit /\ [][NextBuilt]_vars

\* index of the last option of a kind in a list, 0 when there is none
LastOf(opts, kind) ==
    LET idx == { i \in 1..Len(opts) : opts[i].kind = kind }
    IN  IF idx = {} THEN 0 ELSE CHOOSE i \in idx : \A j \in idx : j <= i

\* C26: an invoker built with no option of a kind has that kind's default
\* (RoundRobin, 30s, retry (3, 1s), no tags), otherwise it has what the last
\* option of that kind sets; its HTTP client's timeout is its timeout
C26_LastOptionWins ==
    built.pc = "Done" =>
        LET o == built.opts
            v == built.inv
            t == LastOf(o, "WithTags")
            s == LastOf(o, "WithStrategy")
            d == LastOf(o, "WithInvokeTimeout")
            r == LastOf(o, "WithRetry")
        IN  /\ v.tags = IF t = 0 THEN <<>> ELSE o[t].tags
            /\ v.strategy = IF s = 0 THEN RoundRobin ELSE o[s].strategy
            /\ v.timeout = IF d = 0 THEN 30 ELSE o[d].timeout
            /\ v.retryCount = IF r = 0 THEN 3 ELSE o[r].count
            /\ v.retryInterval = IF r = 0 THEN 1 ELSE o[r].interval
            /\ v.httpTimeout = v.timeout

C26_Witness ==
    /\ built.pc = "Done"
    /\ built.opts = <<WithInvokeTimeout(5), WithInvokeTimeout(60)>>
    /\ built.inv.timeout = 60 /\ built.inv.httpTimeout = 60
    /\ built.inv.strategy = RoundRobin /\ built.inv.retryCount = 3

(* --------------------------- CallJSON headers -------------------------- *)

\* the key http.Header.Set stores a value under: the canonical spelling
Canonical(k) == IF k = "content-type" THEN "Content-Type" ELSE k

\* header names of the request
HeaderNames == { Canonical(k) : k \in HeaderKeys }

\* maps a caller passes
HeaderMaps == [HeaderKeys -> HeaderValues \cup {NoHeader}]

\* CallJSON is called with a map of headers, or with nil
RequestInit ==
    /\ OthersIdle /\ ClientIdle /\ KVIdle /\ AgentIdle /\ GetServiceUnused /\ BuiltUnused
    /\ \/ request = RequestIdle
       \/ \E m \in HeaderMaps :
             request = [RequestIdle EXCEPT !.isNil = FALSE, !.before = m,
                                           !.caller = m, !.headers = m]

\* the two entries CallJSON writes into the map
JSONHeaders(m) ==
    [m EXCEPT !["Content-Type"] = "application/json", !["Accept"] = "application/json"]

\* the bodies json.Marshal gives: none for a nil requestBody, else the bytes
RequestBodies == { <<>>, [k \in 1..MaxBody |-> k] }

\* CallJSON up to its Call: the request body is marshalled, a nil map is
\* replaced by a new one, and the two entries are written into the map,
\* which is the caller's when it was not nil
CallJSONHeaders ==
    /\ request.pc = "Idle"
    /\ \E b \in RequestBodies :
       request' = [request EXCEPT
                      !.pc = "Calling", !.body = b,
                      !.headers = JSONHeaders(request.headers),
                      !.caller = IF request.isNil THEN request.caller
                                 ELSE JSONHeaders(request.caller)]
    /\ UNCHANGED <<invokerVars, watchVars, agentVars, clientVars, kvVars, getService, built>>

\* keys of a map that are stored under one header name
KeysOf(m, name) == { k \in HeaderKeys : m[k] # NoHeader /\ Canonical(k) = name }

\* Call's loop over the map: req.Header.Set(k, v) for every entry, in the
\* order the map's iteration takes, so that a name with several keys gets the
\* value of the key that comes last
CallSetHeaders ==
    /\ request.pc = "Calling"
    /\ \E last \in [HeaderNames -> HeaderKeys] :
          /\ \A c \in HeaderNames :
                IF KeysOf(request.headers, c) = {}
                THEN last[c] = c
                ELSE last[c] \in KeysOf(request.headers, c)
          /\ request' = [request EXCEPT
                            !.pc = "Sent",
                            !.sent = [k \in HeaderKeys |->
                                         IF k \in HeaderNames
                                         THEN request.headers[last[k]]
                                         ELSE NoHeader]]
    /\ UNCHANGED <<invokerVars, watchVars, agentVars, clientVars, kvVars, getService, built>>

\* what the request's reader, strings.NewReader(string(body)), still holds
\* after it gave out pos bytes: nothing puts it back to the start
Remaining(body, pos) == SubSeq(body, pos + 1, Len(body))

\* one httpClient.Do(req) of the retry loop, on the one request built before
\* the loop: the transport reads the body from the request's reader, all of
\* it for a response, and none, a part or all of it before a failure
DoRequest ==
    /\ request.pc \in {"Sent", "Retrying"}
    /\ request.attempt <= retryCount
    /\ LET left == Remaining(request.body, request.pos)
           r == [request EXCEPT !.offered = Append(@, left),
                                !.attempt = @ + 1]
       IN \E ok \in BOOLEAN, read \in 0..Len(left) :
            /\ ok => (read = Len(left) /\ left = request.body)
            /\ request' = [r EXCEPT !.pc = IF ok THEN "Returned" ELSE "Retrying",
                                    !.pos = @ + read]
    /\ UNCHANGED <<invokerVars, watchVars, agentVars, clientVars, kvVars, getService, built>>

\* the loop ends without a response
RequestExhaust ==
    /\ request.pc \in {"Sent", "Retrying"}
    /\ request.attempt > retryCount
    /\ request' = [request EXCEPT !.pc = "Exhausted"]
    /\ UNCHANGED <<invokerVars, watchVars, agentVars, clientVars, kvVars, getService, built>>

NextRequest == CallJSONHeaders \/ CallSetHeaders \/ DoRequest \/ RequestExhaust

SpecRequest == RequestInit /\ [][NextRequest]_vars

\* C28: the request of CallJSON has Content-Type and Accept both
\* application/json, whatever the caller gave for them, and every other
\* header of the caller with the caller's value; a nil map gives the two
\* headers alone
C28_Original ==
    request.pc = "Sent" =>
        /\ request.sent["Content-Type"] = "application/json"
        /\ request.sent["Accept"] = "application/json"
        /\ \A c \in HeaderNames \ {"Content-Type", "Accept"} :
              request.sent[c] = request.before[c]

\* C32: the attempt count in the error NewClient returns after its loop is
\* the number of connection tests it made, for every maxRetries
C32_Original ==
    newClient.result = "ConnectError" => newClient.reported = newClient.tests

\* C36: when CallJSON has returned, with a response or with the error of the
\* last attempt, the map the caller gave holds the entries it held before
C36_Original ==
    request.pc \in {"Returned", "Exhausted"} => request.caller = request.before

\* C33: once the context is done, no watcher writes the config object, also
\* not with the answer of a query that was under way when the signal came
C33_Original ==
    [][\A w \in Watchers :
          (cancelled /\ watch[w].res = "nil") => watch'[w].cfg = watch[w].cfg]_vars

\* C34: a watcher runs only for a WatchConfig that returned nil; a
\* WatchConfig with an empty key, a failed initial read or an initial value
\* that does not parse returns its error and starts no watcher; a WatchConfig that finds no key returns nil, leaves the
\* config as it was and starts the watcher
C34_WatcherOnlyOnNil ==
    /\ [](\A w \in Watchers :
            /\ watch[w].res # "nil" => watch[w].pc = "None"
            /\ watch[w].res = "nil" => watch[w].pc # "None")
    /\ [][\A w \in Watchers :
            (watch[w].res = "none" /\ watch'[w].res # "none") =>
                /\ (kv.present /\ ~kv.valid) => watch'[w].res # "nil"
                /\ watch'[w].res
                      \in {"nil", "EmptyKey", "InitialGetFailed", "InitialParseFailed"}
                /\ watch'[w].res = "InitialParseFailed" => (kv.present /\ ~kv.valid)
                /\ ~kv.present => watch'[w].cfg = watch[w].cfg
                /\ watch'[w].res = "nil" => watch'[w].pc = "Select"]_vars

\* C34 witness: WatchConfig found no key, returned nil with the config as it
\* was, and its watcher is in a query
C34_Witness ==
    \E w \in Watchers :
        /\ ~kv.present /\ kv.index = 1
        /\ watch[w].res = "nil"
        /\ watch[w].cfg = 0
        /\ watch[w].pc = "Querying"

\* C37: an operation that gets an empty key, or PutWithOptions that gets a
\* nil pair, returns an error and sends no request, and the store changes
\* only with a request that carries a key
C37_EmptyKeyRefused ==
    /\ [](\A p \in KVClients :
            LET o == kvops[p] IN
            (o.pc # "Idle" /\ (o.key = "" \/ o.nilPair)) =>
                (o.pc = "Done" /\ ~o.sent /\ o.err \in {"EmptyKey", "NilPair"}))
    /\ [][\A p \in KVClients :
            (kvops[p].pc = "Idle" /\ kvops'[p].pc # "Idle"
                /\ (kvops'[p].key = "" \/ kvops'[p].nilPair)) => store' = store]_vars
    /\ [][store' # store =>
            \E p \in KVClients :
                kvops[p].pc = "Sent" /\ kvops[p].key # "" /\ ~kvops[p].nilPair]_vars

\* C37 witness: PutWithOptions got a pair with an empty key, after a Put
\* that wrote the key, and returned its error with the store as the Put left it
C37_Witness ==
    /\ kvops[1].pc = "Done"
    /\ kvops[1].op = "PutWithOptions" /\ kvops[1].key = "" /\ ~kvops[1].nilPair
    /\ kvops[1].err = "EmptyKey" /\ ~kvops[1].sent
    /\ kvops[1].prev.op = "Put"
    /\ store.present /\ store.index = kvops[1].prev.stamp

(* ------------------- RegisterService, AddHealthCheck ------------------- *)

\* a client that registers services and adds health checks
AgentInit ==
    /\ OthersIdle /\ ClientIdle /\ KVIdle /\ PureIdle /\ AgentIdle

\* the registration RegisterService sends: the fields of the config
ServiceRegistration(c, id, old) ==
    [registered |-> TRUE, name |-> c.name, tags |-> c.tags, address |-> "10.0.0.1",
     port |-> c.port, meta |-> "m", check |-> old.check]

\* the registration AddHealthCheck sends: the ID and the check, every other
\* field at its zero value
CheckRegistration(id, kind, old) ==
    [registered |-> TRUE, name |-> "", tags |-> <<>>, address |-> "", port |-> 0,
     meta |-> "", check |-> kind]

\* RegisterService: the checks, the default ID written into the config, and
\* Agent().ServiceRegister, which stores the registration under its ID when
\* the agent takes it
RegisterService ==
    /\ agentCall.n < MaxAgentOps
    /\ \E cfgNil \in BOOLEAN, name \in AgentNames, id \in ConfigIDs,
          port \in AgentPorts, tagList \in {<<>>, <<"api">>}, ok \in BOOLEAN :
          /\ cfgNil => (name = "" /\ id = "" /\ port = 0 /\ tagList = <<>>)
          /\ LET c == [NoAgentCall EXCEPT
                          !.op = "RegisterService", !.cfgNil = cfgNil, !.name = name,
                          !.id = id, !.port = port, !.tags = tagList, !.cfgID = id,
                          !.n = agentCall.n + 1]
                 regID == IF id = "" THEN DefaultID(name, port) ELSE id
             IN  IF cfgNil
                 THEN /\ agentCall' = [c EXCEPT !.err = "NilConfig"]
                      /\ UNCHANGED agentServices
                 ELSE IF name = ""
                 THEN /\ agentCall' = [c EXCEPT !.err = "EmptyName"]
                      /\ UNCHANGED agentServices
                 ELSE IF port <= 0
                 THEN /\ agentCall' = [c EXCEPT !.err = "InvalidPort"]
                      /\ UNCHANGED agentServices
                 ELSE IF ~ok
                 THEN /\ agentCall' = [c EXCEPT !.cfgID = regID, !.sent = TRUE,
                                                !.err = "RegisterFailed"]
                      /\ UNCHANGED agentServices
                 ELSE /\ agentCall' = [c EXCEPT !.cfgID = regID, !.sent = TRUE]
                      /\ agentServices' =
                            [agentServices EXCEPT ![regID] =
                                ServiceRegistration(c, regID, agentServices[regID])]
    /\ UNCHANGED <<invokerVars, watchVars, clientVars, kvVars, pureVars>>

\* AddHealthCheck: the checks on its arguments, the check's kind, and
\* Agent().ServiceRegister with a registration of the ID and the check
AddHealthCheck ==
    /\ agentCall.n < MaxAgentOps
    /\ \E serviceID \in {""} \cup AgentIDs, checkNil \in BOOLEAN,
          http \in {"", "http://h/health"}, tcp \in {"", "h:80"}, ok \in BOOLEAN :
          /\ checkNil => (http = "" /\ tcp = "")
          /\ LET c == [NoAgentCall EXCEPT
                          !.op = "AddHealthCheck", !.serviceID = serviceID,
                          !.checkNil = checkNil, !.http = http, !.tcp = tcp,
                          !.n = agentCall.n + 1]
                 kind == IF http # "" THEN "http" ELSE "tcp"
             IN  IF serviceID = ""
                 THEN /\ agentCall' = [c EXCEPT !.err = "EmptyServiceID"]
                      /\ UNCHANGED agentServices
                 ELSE IF checkNil
                 THEN /\ agentCall' = [c EXCEPT !.err = "NilCheckConfig"]
                      /\ UNCHANGED agentServices
                 ELSE IF http = "" /\ tcp = ""
                 THEN /\ agentCall' = [c EXCEPT !.err = "NoCheckKind"]
                      /\ UNCHANGED agentServices
                 ELSE IF ~ok
                 THEN /\ agentCall' = [c EXCEPT !.sent = TRUE, !.err = "RegisterFailed"]
                      /\ UNCHANGED agentServices
                 ELSE /\ agentCall' = [c EXCEPT !.sent = TRUE]
                      /\ agentServices' =
                            [agentServices EXCEPT ![serviceID] =
                                CheckRegistration(serviceID, kind, agentServices[serviceID])]
    /\ UNCHANGED <<invokerVars, watchVars, clientVars, kvVars, pureVars>>

NextAgent == RegisterService \/ AddHealthCheck

SpecAgent == AgentInit /\ [][NextAgent]_vars

\* C35: an AddHealthCheck that returns nil leaves name, tags, address, port
\* and metadata of the service as they were and every other service as it
\* was; one that gets an empty ID, a nil config or neither HTTP nor TCP
\* returns an error and leaves the registry as it was
C35_Original ==
    [][(agentCall'.n = agentCall.n + 1 /\ agentCall'.op = "AddHealthCheck") =>
          LET c == agentCall'
              old == agentServices
              new == agentServices'
          IN  /\ (c.serviceID = "" \/ c.checkNil \/ (c.http = "" /\ c.tcp = "")) =>
                    (c.err # "nil" /\ new = old)
              /\ c.err = "nil" =>
                    /\ \A i \in AgentIDs \ {c.serviceID} : new[i] = old[i]
                    /\ new[c.serviceID].name = old[c.serviceID].name
                    /\ new[c.serviceID].tags = old[c.serviceID].tags
                    /\ new[c.serviceID].address = old[c.serviceID].address
                    /\ new[c.serviceID].port = old[c.serviceID].port
                    /\ new[c.serviceID].meta = old[c.serviceID].meta]_vars

\* C38: a RegisterService with a nil config, an empty Name or a Port <= 0
\* returns an error and leaves the registry as it was; one that returns nil
\* has registered the config's name, tags and port under the config's ID, or
\* under "<Name>-<Port>" when the config's ID was empty, has left the other
\* registrations as they were, and the config holds the ID it was registered
\* under
C38_RegisterService ==
    [][(agentCall'.n = agentCall.n + 1 /\ agentCall'.op = "RegisterService") =>
          LET c == agentCall'
              old == agentServices
              new == agentServices'
              expect == IF c.id = "" THEN c.name \o "-" \o ToString(c.port) ELSE c.id
          IN  /\ (c.cfgNil \/ c.name = "" \/ c.port <= 0) =>
                    (c.err # "nil" /\ ~c.sent /\ new = old)
              /\ c.err # "nil" => new = old
              /\ c.err = "nil" =>
                    /\ expect \in AgentIDs
                    /\ new[expect].registered
                    /\ new[expect].name = c.name
                    /\ new[expect].tags = c.tags
                    /\ new[expect].port = c.port
                    /\ \A i \in AgentIDs \ {expect} : new[i] = old[i]
                    /\ c.cfgID = expect]_vars

\* C38 witness: a config without ID was registered under "web-80" and holds
\* that ID
C38_Witness ==
    /\ agentCall.op = "RegisterService" /\ agentCall.err = "nil"
    /\ agentCall.id = "" /\ agentCall.name = "web" /\ agentCall.port = 80
    /\ agentCall.cfgID = "web-80"
    /\ agentServices["web-80"].registered
    /\ agentServices["web-80"].name = "web"
    /\ ~agentServices["w1"].registered

\* C31: every httpClient.Do of an invocation is given the whole request
\* body, also a retry after an attempt that had read the body
C31_Original ==
    \A k \in 1..Len(request.offered) : request.offered[k] = request.body

====
